---- MODULE Spec2Model ----
(***************************************************************************)
(* Model of src/main.ts: the jetton / NFT content decoder.                 *)
(*                                                                         *)
(* A Cell is a record [bits, refs, dict]: bits is a sequence of 0/1, refs  *)
(* a sequence of at most four cells, and dict is the mapping that the      *)
(* library call parseDict reads out of the cell when it is the root of a   *)
(* serialized dictionary. A plain data cell has dict = NoDict: it is not a *)
(* serialized dictionary (a dictionary root holds at least one entry), and *)
(* parseDict throws on it while reading the label or the references.       *)
(* A Slice is the same record, holding what is still unread.               *)
(* A Buffer is a sequence of bytes 0..255; a JavaScript string is a        *)
(* sequence of UTF-16 code units.                                          *)
(***************************************************************************)
EXTENDS Integers, Sequences, FiniteSets, TLC

VARIABLES pc, entry, contentCell, itemCell, calls, inflight, invoked,
          jsonURI, result,
          fxBytes, fxCuts, fxTail, valSplit, valPacked

vars == <<pc, entry, contentCell, itemCell, calls, inflight, invoked,
          jsonURI, result, fxBytes, fxCuts, fxTail, valSplit, valPacked>>

(***************************************************************************)
(* Program constants                                                       *)
(***************************************************************************)
ONCHAIN_CONTENT_PREFIX == 0
OFFCHAIN_CONTENT_PREFIX == 1
SNAKE_PREFIX == 0
KEYLEN == 256

(***************************************************************************)
(* Bounds of the model                                                     *)
(***************************************************************************)
\* largest number of entries of a dictionary drawn as input
MaxEntries == 2
\* longest byte string of the snake fixture
MaxLen == 3
\* largest number of cells the snake fixture is split across
MaxFragments == 3

(***************************************************************************)
(* Characters and strings                                                  *)
(***************************************************************************)
Lower == <<"a","b","c","d","e","f","g","h","i","j","k","l","m",
           "n","o","p","q","r","s","t","u","v","w","x","y","z">>
Digits == <<"0","1","2","3","4","5","6","7","8","9">>

\* code unit of a one-character string (the characters the model writes)
Ord(c) ==
    IF \E i \in 1..26 : Lower[i] = c
    THEN 96 + (CHOOSE i \in 1..26 : Lower[i] = c)
    ELSE IF \E i \in 1..10 : Digits[i] = c
    THEN 47 + (CHOOSE i \in 1..10 : Digits[i] = c)
    ELSE CASE c = ":" -> 58
           [] c = "/" -> 47
           [] c = "." -> 46
           [] c = "-" -> 45
           [] c = "_" -> 95

\* a string literal, written as a tuple of one-character strings
Str(cs) == [i \in 1..Len(cs) |-> Ord(cs[i])]

startsWith(s, p) ==
    /\ Len(s) >= Len(p)
    /\ SubSeq(s, 1, Len(p)) = p

\* position of the first occurrence of p in s, 0 when there is none
indexOf(s, p) ==
    LET hits == {i \in 1..(Len(s) - Len(p) + 1) : SubSeq(s, i, i + Len(p) - 1) = p}
    IN IF hits = {} THEN 0 ELSE CHOOSE i \in hits : \A j \in hits : i <= j

\* String.prototype.replace(pattern, replacement) with a string pattern:
\* the first occurrence only, wherever it is
replaceFirst(s, p, r) ==
    LET i == indexOf(s, p)
    IN IF i = 0 THEN s
       ELSE SubSeq(s, 1, i - 1) \o r \o SubSeq(s, i + Len(p), Len(s))

(***************************************************************************)
(* Bits and buffers                                                        *)
(***************************************************************************)
RECURSIVE Pow2(_)
Pow2(n) == IF n = 0 THEN 1 ELSE 2 * Pow2(n - 1)

\* the 8 bits of a byte, most significant first
Byte(b) == [i \in 1..8 |-> (b \div Pow2(8 - i)) % 2]

RECURSIVE BytesToBits(_)
BytesToBits(bs) ==
    IF bs = <<>> THEN <<>> ELSE Byte(Head(bs)) \o BytesToBits(Tail(bs))

\* unsigned integer held by a bit sequence, most significant bit first
RECURSIVE bitsToUint(_)
bitsToUint(bits) ==
    IF bits = <<>> THEN 0
    ELSE 2 * bitsToUint(SubSeq(bits, 1, Len(bits) - 1)) + bits[Len(bits)]

\* ton-core bitsToPaddedBuffer: whole bytes are taken as they are; a trailing
\* partial byte is completed with a 1 bit followed by 0 bits
bitsToPaddedBuffer(bits) ==
    LET n == (Len(bits) + 7) \div 8
        padding == n * 8 - Len(bits)
        padded == bits \o [i \in 1..padding |-> IF i = 1 THEN 1 ELSE 0]
    IN [k \in 1..n |-> bitsToUint(SubSeq(padded, 8 * k - 7, 8 * k))]

\* Buffer.toString("ascii"): the high bit of every byte is cleared
toStringAscii(buf) == [i \in 1..Len(buf) |-> buf[i] % 128]

\* UTF-16 code units of a code point
codeUnits(cp) ==
    IF cp < 65536 THEN <<cp>>
    ELSE << 55296 + ((cp - 65536) \div 1024), 56320 + ((cp - 65536) % 1024) >>

\* Buffer.toString("utf8"): the UTF-8 decoder, every ill-formed maximal
\* subpart becoming U+FFFD. need = continuation bytes still expected,
\* cp = code point so far, lo..hi = range allowed for the next byte.
RECURSIVE utf8Decode(_, _, _, _, _, _)
utf8Decode(buf, i, need, cp, lo, hi) ==
    IF i > Len(buf)
    THEN (IF need = 0 THEN <<>> ELSE <<65533>>)
    ELSE LET b == buf[i] IN
         IF need = 0
         THEN IF b < 128 THEN <<b>> \o utf8Decode(buf, i + 1, 0, 0, 128, 191)
              ELSE IF b >= 194 /\ b <= 223
              THEN utf8Decode(buf, i + 1, 1, b % 32, 128, 191)
              ELSE IF b >= 224 /\ b <= 239
              THEN utf8Decode(buf, i + 1, 2, b % 16,
                              IF b = 224 THEN 160 ELSE 128,
                              IF b = 237 THEN 159 ELSE 191)
              ELSE IF b >= 240 /\ b <= 244
              THEN utf8Decode(buf, i + 1, 3, b % 8,
                              IF b = 240 THEN 144 ELSE 128,
                              IF b = 244 THEN 143 ELSE 191)
              ELSE <<65533>> \o utf8Decode(buf, i + 1, 0, 0, 128, 191)
         ELSE IF b < lo \/ b > hi
              THEN <<65533>> \o utf8Decode(buf, i, 0, 0, 128, 191)
              ELSE IF need = 1
                   THEN codeUnits((cp * 64) + (b % 64))
                        \o utf8Decode(buf, i + 1, 0, 0, 128, 191)
                   ELSE utf8Decode(buf, i + 1, need - 1, (cp * 64) + (b % 64), 128, 191)

toStringUtf8(buf) == utf8Decode(buf, 1, 0, 0, 128, 191)

(***************************************************************************)
(* Cells and slices                                                        *)
(***************************************************************************)
NoDict == <<>>
Cell(b, r) == [bits |-> b, refs |-> r, dict |-> NoDict]
DictCell(d) == [bits |-> <<>>, refs |-> <<>>, dict |-> d]
EmptyCell == Cell(<<>>, <<>>)

beginParse(cell) == cell
remainingBits(s) == Len(s.bits)
remainingRefs(s) == Len(s.refs)
\* the slice after n bits were loaded
skipBits(s, n) == [s EXCEPT !.bits = SubSeq(s.bits, n + 1, Len(s.bits))]
loadUint(s, n) == bitsToUint(SubSeq(s.bits, 1, n))

(***************************************************************************)
(* Outcomes of a synchronous step: a value, or a thrown error              *)
(***************************************************************************)
Ok(x) == [ok |-> TRUE, v |-> x, err |-> "none"]
Throw(e) == [ok |-> FALSE, v |-> <<>>, err |-> e]

(***************************************************************************)
(* parseJettonOnchainMetadata                                              *)
(***************************************************************************)
FieldNames == <<"name", "description", "image", "decimals", "symbol", "image_data">>

\* jettonOnChainMetadataSpec: the text encoding of each field
jettonOnChainMetadataSpec(k) ==
    CASE k = "name" -> "utf8"
      [] k = "description" -> "utf8"
      [] k = "image" -> "ascii"
      [] k = "decimals" -> "utf8"
      [] k = "symbol" -> "utf8"
      [] k = "image_data" -> "undefined"

\* SHA-256 of a field name. A key is represented by the leading byte of the
\* 256-bit digest, which tells the digests of these names apart.
sha256(str) ==
    CASE str = "name" -> 130
      [] str = "description" -> 201
      [] str = "image" -> 97
      [] str = "decimals" -> 238
      [] str = "symbol" -> 183
      [] str = "image_data" -> 217
      [] str = "uri" -> 112

toKey(digest) == digest

\* Buffer.toString(encoding); an undefined encoding means utf8
bufferToString(buf, encoding) ==
    IF encoding = "ascii" THEN toStringAscii(buf) ELSE toStringUtf8(buf)

\* if (isFirst && s.loadUint(8) !== SNAKE_PREFIX): the prefix is read on the
\* first fragment only
snakePrefixCheckedEveryFragment(isFirst) == TRUE
snakePrefixChecked(isFirst) == isFirst

\* if (s.remainingRefs === 1): the chain goes on
snakeContinuesAnyRef(s) == remainingRefs(s) >= 1
snakeContinues(s) == remainingRefs(s) = 1

RECURSIVE sliceToVal(_, _, _)
sliceToVal(s, v, isFirst) ==
    IF snakePrefixChecked(isFirst) /\ remainingBits(s) < 8
    THEN Throw("SliceUnderrun")
    ELSE IF snakePrefixChecked(isFirst) /\ loadUint(s, 8) # SNAKE_PREFIX
    THEN Throw("Only snake format is supported")
    ELSE LET s1 == IF snakePrefixChecked(isFirst) THEN skipBits(s, 8) ELSE s
             bytes == bitsToPaddedBuffer(s1.bits)
             v1 == v \o bytes
         IN IF snakeContinues(s1)
            THEN sliceToVal(beginParse(s1.refs[1]), v1, FALSE)
            ELSE Ok(v1)

\* if (s.remainingRefs === 0) in the value extractor
extractorFaulty(s) == remainingRefs(s) = 0

\* the extractor handed to parseDict: the buffer of one dictionary value
extractor(s) ==
    IF extractorFaulty(s)
    THEN sliceToVal(s, <<>>, TRUE)
    ELSE sliceToVal(beginParse(s.refs[1]), <<>>, TRUE)

Min(S) == CHOOSE x \in S : \A y \in S : x <= y
Max(S) == CHOOSE x \in S : \A y \in S : x >= y

\* the cell is the root of a serialized dictionary
isDictRoot(s) == DOMAIN s.dict # {}

\* parseDict(slice, KEYLEN, extractor): a cell that is no serialized
\* dictionary makes the reader run out of bits or references; otherwise the
\* extractor is applied to every value of the dictionary, in key order, and
\* the first throw ends the parse
parseDict(s, keylen) ==
    LET vals == [k \in DOMAIN s.dict |-> extractor(s.dict[k])]
        bad == {k \in DOMAIN s.dict : ~vals[k].ok}
    IN IF ~isDictRoot(s) THEN Throw("SliceUnderrun")
       ELSE IF bad # {} THEN Throw(vals[Min(bad)].err)
       ELSE Ok([k \in DOMAIN s.dict |-> vals[k].v])

\* isJettonDeployerFaultyOnChainData after the parse: set by any value
faultyFlagOfLastValue(s) ==
    DOMAIN s.dict # {} /\ extractorFaulty(s.dict[Max(DOMAIN s.dict)])
faultyFlag(s) == \E k \in DOMAIN s.dict : extractorFaulty(s.dict[k])

\* if (val) res[k] = val: an empty string is not kept
truthy(str) == str # <<>>

\* the forEach over Object.keys(jettonOnChainMetadataSpec)
metadataOf(dict) ==
    LET val(k) == bufferToString(dict[toKey(sha256(k))], jettonOnChainMetadataSpec(k))
        kept == {k \in {FieldNames[i] : i \in 1..Len(FieldNames)} :
                    /\ toKey(sha256(k)) \in DOMAIN dict
                    /\ truthy(val(k))}
    IN [k \in kept |-> val(k)]

parseJettonOnchainMetadata(contentSlice) ==
    IF remainingRefs(contentSlice) = 0 THEN Throw("SliceUnderrun")
    ELSE LET root == beginParse(contentSlice.refs[1])
             dict == parseDict(root, KEYLEN)
         IN IF ~dict.ok THEN dict
            ELSE Ok([metadata |-> metadataOf(dict.v),
                     isJettonDeployerFaultyOnChainData |-> faultyFlag(root)])

(***************************************************************************)
(* parseJettonOffchainMetadata                                             *)
(***************************************************************************)
IPFS_SCHEME == Str(<<"i","p","f","s",":","/","/">>)
IPFS_GATEWAY == Str(<<"h","t","t","p","s",":","/","/","i","p","f","s",".","i","o",
                      "/","i","p","f","s","/">>)

\* the URL handed to axios.get
offchainURI(contentSlice) ==
    replaceFirst(toStringAscii(bitsToPaddedBuffer(contentSlice.bits)),
                 IPFS_SCHEME, IPFS_GATEWAY)

\* /(^|\/)ipfs[.:]/.test(uri)
ipfsRegexUnanchored(uri) ==
    \E i \in 1..(Len(uri) - 4) :
        /\ SubSeq(uri, i, i + 3) = Str(<<"i","p","f","s">>)
        /\ uri[i + 4] \in {Ord("."), Ord(":")}
ipfsRegex(uri) ==
    \E i \in 1..(Len(uri) - 4) :
        /\ i = 1 \/ uri[i - 1] = Ord("/")
        /\ SubSeq(uri, i, i + 3) = Str(<<"i","p","f","s">>)
        /\ uri[i + 4] \in {Ord("."), Ord(":")}

(***************************************************************************)
(* readContent: the dispatch on the tag byte                               *)
(***************************************************************************)
dispatchDefaultOnchain(tag) ==
    IF tag = OFFCHAIN_CONTENT_PREFIX THEN "offchain" ELSE "onchain"
dispatchDefaultOffchain(tag) ==
    IF tag = ONCHAIN_CONTENT_PREFIX THEN "onchain" ELSE "offchain"
dispatch(tag) ==
    CASE tag = ONCHAIN_CONTENT_PREFIX -> "onchain"
      [] tag = OFFCHAIN_CONTENT_PREFIX -> "offchain"
      [] OTHER -> "throw"

(***************************************************************************)
(* Inputs: the cells the remote reads can return                           *)
(***************************************************************************)
Bits(str) == BytesToBits(str)

JunkCell == Cell(Byte(90), <<>>)

\* what is left of a dictionary leaf after its label: the value slice
ValueCells ==
    { Cell(Byte(0), <<>>),
      Cell(Byte(0) \o Byte(65), <<>>),
      Cell(Byte(0) \o Byte(233), <<>>),
      Cell(Byte(1) \o Byte(65), <<>>),
      EmptyCell,
      Cell(<<>>, << Cell(Byte(0), <<>>) >>),
      Cell(<<>>, << Cell(Byte(0) \o Byte(57), <<>>) >>),
      Cell(<<>>, << Cell(Byte(0) \o Byte(65), << Cell(Byte(66), <<>>) >>) >>),
      Cell(<<>>, << Cell(Byte(0) \o Byte(195) \o Byte(169), <<>>), JunkCell >>),
      Cell(<<>>, << Cell(Byte(0) \o Byte(65), << JunkCell, JunkCell >>) >>),
      Cell(<<>>, << Cell(Byte(1) \o Byte(65), <<>>) >>) }

DictKeys == { sha256("name"), sha256("image"), sha256("uri") }

Dicts ==
    UNION { [ks -> ValueCells] :
              ks \in {x \in SUBSET DictKeys : x # {} /\ Cardinality(x) <= MaxEntries} }

OnchainCells ==
    { Cell(Byte(ONCHAIN_CONTENT_PREFIX) \o <<1>>, << DictCell(d) >>) : d \in Dicts }
    \cup { Cell(Byte(ONCHAIN_CONTENT_PREFIX) \o <<0>>, <<>>) }

URI_IPFS == Str(<<"i","p","f","s",":","/","/","a","b","c","/","1","2","3">>)
URI_IPFS_REWRITTEN ==
    Str(<<"h","t","t","p","s",":","/","/","i","p","f","s",".","i","o","/",
          "i","p","f","s","/","a","b","c","/","1","2","3">>)
URI_EXAMPLE ==
    Str(<<"h","t","t","p","s",":","/","/","e","x","a","m","p","l","e",".","c","o","m",
          "/","m","e","t","a",".","j","s","o","n">>)
URI_MYIPFS ==
    Str(<<"h","t","t","p","s",":","/","/","m","y","i","p","f","s",".",
          "g","a","t","e","w","a","y",".","c","o","m","/","x">>)
URI_GATEWAY ==
    Str(<<"h","t","t","p","s",":","/","/","i","p","f","s",".","i","o","/","q","m">>)
URI_INNER_SCHEME == Str(<<"x","/","i","p","f","s",":","/","/","y">>)
URI_PATH_SCHEME == Str(<<"/","i","p","f","s",":","x">>)
URI_BASE ==
    Str(<<"h","t","t","p","s",":","/","/","c","d","n",".","e","x","a","m","p","l","e",
          "/","c","o","l","/">>)
PATH_ITEM == Str(<<"5",".","j","s","o","n">>)

\* the buffers an off-ledger cell carries after its tag byte
UriBuffers ==
    { URI_IPFS, URI_EXAMPLE, URI_MYIPFS, URI_GATEWAY, URI_INNER_SCHEME,
      URI_PATH_SCHEME, URI_BASE, IPFS_SCHEME, <<>>,
      <<233, 240, 230, 243, 58, 47, 47, 97>> }

OffchainCells ==
    { Cell(Byte(OFFCHAIN_CONTENT_PREFIX) \o Bits(u), r) :
        u \in UriBuffers, r \in { <<>>, << JunkCell >> } }
    \cup { Cell(Byte(OFFCHAIN_CONTENT_PREFIX) \o Byte(97) \o <<1, 0, 1>>, <<>>) }

\* every tag byte, in front of an off-ledger body and of an on-ledger body
TagSweepCells ==
    { Cell(Byte(t) \o Bits(URI_GATEWAY), <<>>) : t \in 0..255 }
    \cup { Cell(Byte(t) \o <<1>>,
                << DictCell([k \in {sha256("name")} |-> Cell(Byte(0) \o Byte(65), <<>>)]) >>) :
             t \in 0..255 }

ShortCells == { EmptyCell, Cell(<<1, 0, 1>>, <<>>) }

\* on-ledger tag in front of a reference to a cell that is no dictionary
NotDictCells ==
    { Cell(Byte(ONCHAIN_CONTENT_PREFIX) \o b, << c >>) :
        b \in { <<>>, <<1>> },
        c \in { EmptyCell, JunkCell, Cell(<<>>, << JunkCell, JunkCell >>) } }

ContentCells ==
    OnchainCells \cup OffchainCells \cup TagSweepCells \cup ShortCells
    \cup NotDictCells

\* results of get_nft_content
CollectionContentCells ==
    { Cell(Byte(OFFCHAIN_CONTENT_PREFIX) \o Bits(URI_BASE), <<>>),
      Cell(Bits(URI_BASE), <<>>),
      Cell(Byte(OFFCHAIN_CONTENT_PREFIX) \o Bits(URI_IPFS), << JunkCell >>),
      Cell(Byte(ONCHAIN_CONTENT_PREFIX) \o <<1>>,
           << DictCell([k \in {sha256("name")} |-> Cell(Byte(0) \o Byte(65), <<>>)]) >>),
      EmptyCell }

\* individual_item_content of get_nft_data
ItemCells ==
    { EmptyCell,
      Cell(Bits(PATH_ITEM), <<>>),
      Cell(<<>>, << JunkCell >>),
      Cell(Byte(49), << JunkCell >>),
      Cell(Byte(49) \o <<1, 0, 1>>, <<>>) }

\* bodies the HTTP fetcher can return: parsed JSON objects
FetchBodies ==
    { [name |-> Str(<<"a">>)],
      [name |-> Str(<<"a">>), extra |-> Str(<<"z">>)] }

(***************************************************************************)
(* State                                                                   *)
(*   pc          where the running entry point is suspended               *)
(*   entry       the entry point that was called                          *)
(*   contentCell the cell read from the stack of the last remote read     *)
(*   itemCell    individual_item_content of readNftItemMetadata            *)
(*   calls       the external calls issued so far, in order               *)
(*   inflight    positions in calls of the calls not yet returned          *)
(*   invoked     the parsers readContent has called                        *)
(*   jsonURI     the URL of the pending axios.get                          *)
(*   result      what the entry point returned or threw                    *)
(*   fx*, val*   the snake fixture and its two decodings                   *)
(***************************************************************************)
NoResult ==
    [kind |-> "none", persistenceType |-> "none", metadata |-> <<>>,
     hasFaultyFlag |-> FALSE, isJettonDeployerFaultyOnChainData |-> FALSE,
     error |-> "none"]
Thrown(e) == [NoResult EXCEPT !.kind = "error", !.error = e]
NoVal == [ok |-> FALSE, v |-> <<>>, err |-> "not run"]

RunMethod(m) == [kind |-> "runMethod", method |-> m, url |-> <<>>]
AxiosGet(u) == [kind |-> "axios.get", method |-> "", url |-> u]

\* the awaited call, the last one issued, has returned
returned == inflight \ {Len(calls)}

FixtureIdle ==
    /\ fxBytes = <<>>
    /\ fxCuts = <<>>
    /\ fxTail = 0
    /\ valSplit = NoVal
    /\ valPacked = NoVal

Init ==
    /\ pc = "idle"
    /\ entry = "none"
    /\ contentCell = EmptyCell
    /\ itemCell = EmptyCell
    /\ calls = <<>>
    /\ inflight = {}
    /\ invoked = {}
    /\ jsonURI = <<>>
    /\ result = NoResult
    /\ FixtureIdle

fxVars == <<fxBytes, fxCuts, fxTail, valSplit, valPacked>>

\* an entry point starts by awaiting client.runMethod(address, method)
CallEntry(e, method, await) ==
    /\ entry' = e
    /\ calls' = Append(calls, RunMethod(method))
    /\ inflight' = inflight \cup {Len(calls) + 1}
    /\ pc' = await
    /\ UNCHANGED <<contentCell, itemCell, invoked, jsonURI, result, fxVars>>

readJettonMetadata ==
    /\ pc = "idle"
    /\ CallEntry("readJettonMetadata", "get_jetton_data", "await_jetton_data")

readNftMetadata ==
    /\ pc = "idle"
    /\ CallEntry("readNftMetadata", "get_collection_data", "await_collection_data")

readNftItemMetadata ==
    /\ pc = "idle"
    /\ CallEntry("readNftItemMetadata", "get_nft_data", "await_nft_data")

readJettonWalletMedata ==
    /\ pc = "idle"
    /\ CallEntry("readJettonWalletMedata", "get_wallet_data", "await_wallet_data")

\* get_wallet_data returned: the minter address is read off the stack and
\* readJettonMetadata is called with it
WalletDataReturn ==
    /\ pc = "await_wallet_data"
    /\ calls' = Append(calls, RunMethod("get_jetton_data"))
    /\ inflight' = returned \cup {Len(calls) + 1}
    /\ pc' = "await_jetton_data"
    /\ UNCHANGED <<entry, contentCell, itemCell, invoked, jsonURI, result, fxVars>>

\* readContent(res), run when the remote read of the content cell returned
readContent(cell) ==
    LET contentSlice == beginParse(cell)
        route == dispatch(loadUint(contentSlice, 8))
        rest == skipBits(contentSlice, 8)
        onchain == parseJettonOnchainMetadata(rest)
    IN
    /\ contentCell' = cell
    /\ IF remainingBits(contentSlice) < 8
       THEN /\ result' = Thrown("SliceUnderrun")
            /\ pc' = "failed"
            /\ inflight' = returned
            /\ UNCHANGED <<calls, invoked, jsonURI>>
       ELSE IF route = "onchain"
       THEN /\ invoked' = invoked \cup {"parseJettonOnchainMetadata"}
            /\ inflight' = returned
            /\ IF onchain.ok
               THEN /\ result' =
                         [kind |-> "content", persistenceType |-> "onchain",
                          metadata |-> onchain.v.metadata,
                          hasFaultyFlag |-> TRUE,
                          isJettonDeployerFaultyOnChainData |->
                              onchain.v.isJettonDeployerFaultyOnChainData,
                          error |-> "none"]
                    /\ pc' = "done"
               ELSE /\ result' = Thrown(onchain.err)
                    /\ pc' = "failed"
            /\ UNCHANGED <<calls, jsonURI>>
       ELSE IF route = "offchain"
       THEN /\ invoked' = invoked \cup {"parseJettonOffchainMetadata"}
            /\ jsonURI' = offchainURI(rest)
            /\ calls' = Append(calls, AxiosGet(offchainURI(rest)))
            /\ inflight' = returned \cup {Len(calls) + 1}
            /\ pc' = "await_fetch"
            /\ UNCHANGED result
       ELSE /\ result' = Thrown("Unexpected jetton metadata content prefix")
            /\ pc' = "failed"
            /\ inflight' = returned
            /\ UNCHANGED <<calls, invoked, jsonURI>>
    /\ UNCHANGED <<entry, itemCell, fxVars>>

JettonDataReturn ==
    /\ pc = "await_jetton_data"
    /\ \E cell \in ContentCells : readContent(cell)

CollectionDataReturn ==
    /\ pc = "await_collection_data"
    /\ \E cell \in ContentCells : readContent(cell)

\* axios.get of parseJettonOffchainMetadata returned: the body is the metadata
FetchReturn ==
    /\ pc = "await_fetch"
    /\ \E body \in FetchBodies :
         result' = [kind |-> "content",
                    persistenceType |->
                        IF ipfsRegex(jsonURI) THEN "offchain_ipfs"
                        ELSE "offchain_private_domain",
                    metadata |-> body,
                    hasFaultyFlag |-> FALSE,
                    isJettonDeployerFaultyOnChainData |-> FALSE,
                    error |-> "none"]
    /\ inflight' = returned
    /\ pc' = "done"
    /\ UNCHANGED <<entry, contentCell, itemCell, calls, invoked, jsonURI, fxVars>>

\* get_nft_data returned: index, collection address and the item's content
\* are read off the stack and get_nft_content is called
NftDataReturn ==
    /\ pc = "await_nft_data"
    /\ \E item \in ItemCells : itemCell' = item
    /\ calls' = Append(calls, RunMethod("get_nft_content"))
    /\ inflight' = returned \cup {Len(calls) + 1}
    /\ pc' = "await_nft_content"
    /\ UNCHANGED <<entry, contentCell, invoked, jsonURI, result, fxVars>>

\* pathBase: every bit of the cell get_nft_content returned
pathBaseOf(cell) ==
    LET linkSlice == beginParse(cell)
    IN toStringUtf8(bitsToPaddedBuffer(linkSlice.bits))

\* the URL readNftItemMetadata fetches
itemURL(pathBase, item) ==
    LET linkSlice == beginParse(item)
    IN IF remainingBits(linkSlice) = 0 THEN pathBase
       ELSE pathBase \o toStringUtf8(bitsToPaddedBuffer(linkSlice.bits))

NftContentReturn ==
    /\ pc = "await_nft_content"
    /\ \E cell \in CollectionContentCells :
         /\ contentCell' = cell
         /\ jsonURI' = itemURL(pathBaseOf(cell), itemCell)
         /\ calls' = Append(calls, AxiosGet(itemURL(pathBaseOf(cell), itemCell)))
    /\ inflight' = returned \cup {Len(calls) + 1}
    /\ pc' = "await_item_fetch"
    /\ UNCHANGED <<entry, itemCell, invoked, result, fxVars>>

\* axios.get of readNftItemMetadata returned: the body is returned as it is
ItemFetchReturn ==
    /\ pc = "await_item_fetch"
    /\ \E body \in FetchBodies :
         result' = [NoResult EXCEPT !.kind = "json", !.metadata = body]
    /\ inflight' = returned
    /\ pc' = "done"
    /\ UNCHANGED <<entry, contentCell, itemCell, calls, invoked, jsonURI, fxVars>>

\* client.runMethod threw
RemoteCallFails ==
    /\ pc \in {"await_wallet_data", "await_jetton_data", "await_collection_data",
               "await_nft_data", "await_nft_content"}
    /\ result' = Thrown("RemoteCallError")
    /\ inflight' = returned
    /\ pc' = "failed"
    /\ UNCHANGED <<entry, contentCell, itemCell, calls, invoked, jsonURI, fxVars>>

\* axios.get threw
FetchFails ==
    /\ pc \in {"await_fetch", "await_item_fetch"}
    /\ result' = Thrown("FetchError")
    /\ inflight' = returned
    /\ pc' = "failed"
    /\ UNCHANGED <<entry, contentCell, itemCell, calls, invoked, jsonURI, fxVars>>

Next ==
    \/ readJettonMetadata
    \/ readNftMetadata
    \/ readNftItemMetadata
    \/ readJettonWalletMedata
    \/ WalletDataReturn
    \/ JettonDataReturn
    \/ CollectionDataReturn
    \/ FetchReturn
    \/ NftDataReturn
    \/ NftContentReturn
    \/ ItemFetchReturn
    \/ RemoteCallFails
    \/ FetchFails

Spec == Init /\ [][Next]_vars

(***************************************************************************)
(* The snake fixture: a byte string, cut at byte boundaries into a chain   *)
(* of cells, decoded by sliceToVal, and the same bytes in one cell         *)
(***************************************************************************)
FxAlphabet == {0, 65}

FxByteStrings == UNION { [1..n -> FxAlphabet] : n \in 0..MaxLen }

\* cut positions: a nondecreasing sequence of at most MaxFragments - 1 cuts
FxCutsOf(bytes) ==
    { c \in UNION { [1..n -> 0..Len(bytes)] : n \in 0..(MaxFragments - 1) } :
        \A i \in 1..(Len(c) - 1) : c[i] <= c[i + 1] }

\* the parts the cuts split the bytes into
FxParts(bytes, cuts) ==
    LET at(i) == IF i = 0 THEN 0
                 ELSE IF i > Len(cuts) THEN Len(bytes) ELSE cuts[i]
    IN [i \in 1..(Len(cuts) + 1) |-> SubSeq(bytes, at(i - 1) + 1, at(i))]

\* the chain of cells holding the parts: the snake prefix on the first cell
\* only, one reference from each cell to the next, tail on the last cell
RECURSIVE FxChain(_, _, _)
FxChain(parts, i, tail) ==
    LET bits == (IF i = 1 THEN Byte(SNAKE_PREFIX) ELSE <<>>) \o Bits(parts[i])
    IN IF i = Len(parts) THEN Cell(bits, tail)
       ELSE Cell(bits, << FxChain(parts, i + 1, tail) >>)

\* references of the last cell: none, or two cells that are not a continuation
FxTailRefs(n) == [i \in 1..n |-> JunkCell]

InitSnake ==
    /\ pc = "fixture"
    /\ entry = "none"
    /\ contentCell = EmptyCell
    /\ itemCell = EmptyCell
    /\ calls = <<>>
    /\ inflight = {}
    /\ invoked = {}
    /\ jsonURI = <<>>
    /\ result = NoResult
    /\ fxBytes \in FxByteStrings
    /\ fxCuts \in FxCutsOf(fxBytes)
    /\ fxTail \in {0, 2}
    /\ valSplit = NoVal
    /\ valPacked = NoVal

ioVars == <<entry, contentCell, itemCell, calls, inflight, invoked, jsonURI, result>>

DecodeSplit ==
    /\ pc = "fixture"
    /\ valSplit' = sliceToVal(beginParse(FxChain(FxParts(fxBytes, fxCuts), 1,
                                                 FxTailRefs(fxTail))),
                              <<>>, TRUE)
    /\ pc' = "split_decoded"
    /\ UNCHANGED <<ioVars, fxBytes, fxCuts, fxTail, valPacked>>

DecodePacked ==
    /\ pc = "split_decoded"
    /\ valPacked' = sliceToVal(beginParse(FxChain(<<fxBytes>>, 1, <<>>)), <<>>, TRUE)
    /\ pc' = "both_decoded"
    /\ UNCHANGED <<ioVars, fxBytes, fxCuts, fxTail, valSplit>>

NextSnake == DecodeSplit \/ DecodePacked

SpecSnake == InitSnake /\ [][NextSnake]_vars

(***************************************************************************)
(* Properties                                                              *)
(***************************************************************************)
ContentEntries == {"readJettonMetadata", "readNftMetadata", "readJettonWalletMedata"}

\* readContent has run on contentCell, which holds a whole tag byte
Dispatched ==
    /\ entry \in ContentEntries
    /\ pc \in {"await_fetch", "done", "failed"}
    /\ result.error # "RemoteCallError"
    /\ remainingBits(contentCell) >= 8

TagOf(cell) == bitsToUint(SubSeq(cell.bits, 1, 8))

Fetches == {i \in 1..Len(calls) : calls[i].kind = "axios.get"}

\* C1: the first 8 bits of the content cell are the tag; tag 0x00 reaches the
\* on-ledger parser only and a result has persistence "onchain"; tag 0x01
\* reaches the off-ledger parser only and a result has persistence
\* "offchain_ipfs" or "offchain_private_domain"; every other tag fails with an
\* error, invokes neither parser and issues no HTTP fetch.
C1_TagDispatch ==
    Dispatched =>
        /\ TagOf(contentCell) = 0 =>
             /\ invoked = {"parseJettonOnchainMetadata"}
             /\ Fetches = {}
             /\ pc = "done" => result.persistenceType = "onchain"
        /\ TagOf(contentCell) = 1 =>
             /\ invoked = {"parseJettonOffchainMetadata"}
             /\ pc = "done" =>
                  result.persistenceType \in {"offchain_ipfs", "offchain_private_domain"}
        /\ TagOf(contentCell) \notin {0, 1} =>
             /\ pc = "failed"
             /\ result.kind = "error"
             /\ invoked = {}
             /\ Fetches = {}

C1_Witness ==
    /\ Dispatched
    /\ TagOf(contentCell) = 255
    /\ pc = "failed"
    /\ Len(contentCell.refs) = 1

\* an on-ledger decode has returned a record
OnchainDone ==
    /\ Dispatched
    /\ TagOf(contentCell) = 0
    /\ pc = "done"

\* the dictionary the decode read
InputDict == contentCell.refs[1].dict

\* C2: for every on-ledger dictionary that decodes, the one flag of the record
\* is true exactly when some value cell of the dictionary, under whatever key,
\* has zero child references at its root.
C2_FaultyFlagExact ==
    OnchainDone =>
        /\ result.hasFaultyFlag
        /\ result.isJettonDeployerFaultyOnChainData
             = (\E k \in DOMAIN InputDict : Len(InputDict[k].refs) = 0)

C2_Witness ==
    /\ OnchainDone
    /\ result.isJettonDeployerFaultyOnChainData
    /\ sha256("uri") \in DOMAIN InputDict
    /\ sha256("name") \in DOMAIN InputDict
    /\ Len(InputDict[sha256("name")].refs) = 0
    /\ Len(InputDict[sha256("uri")].refs) = 2

\* C3: a byte string cut at byte boundaries into 1, 2 or 3 chained cells
\* decodes to the same bytes as when packed into one cell, namely to the byte
\* string itself; the walk goes through every single reference and stops at
\* a cell with no reference or with two.
C3_SnakeFragmentation ==
    pc = "both_decoded" =>
        /\ valSplit.ok
        /\ valPacked.ok
        /\ valSplit.v = valPacked.v
        /\ valSplit.v = fxBytes

C3_Witness ==
    /\ pc = "both_decoded"
    /\ fxBytes = <<65, 0, 65>>
    /\ fxCuts = <<1, 2>>
    /\ fxTail = 2
    /\ valSplit.v = <<65, 0, 65>>

\* the first fragment of a value's chain
FirstFragment(value) == IF Len(value.refs) = 0 THEN value ELSE value.refs[1]

\* an on-ledger parse has run on a dictionary
OnchainParsed ==
    /\ Dispatched
    /\ TagOf(contentCell) = 0
    /\ Len(contentCell.refs) >= 1
    /\ isDictRoot(contentCell.refs[1])

\* C4: when the first fragment of some value begins with a byte other than
\* 0x00 the whole decode fails and returns no record; the prefix is looked at
\* on first fragments only, so a dictionary whose first fragments all begin
\* with 0x00 decodes whatever its continuation fragments begin with.
C4_SnakePrefix ==
    OnchainParsed =>
        /\ (\E k \in DOMAIN InputDict :
                /\ Len(FirstFragment(InputDict[k]).bits) >= 8
                /\ TagOf(FirstFragment(InputDict[k])) # 0)
             => /\ pc = "failed"
                /\ result.kind = "error"
                /\ DOMAIN result.metadata = {}
                /\ ~result.hasFaultyFlag
        /\ (\A k \in DOMAIN InputDict :
                /\ Len(FirstFragment(InputDict[k]).bits) >= 8
                /\ TagOf(FirstFragment(InputDict[k])) = 0)
             => pc = "done"

C4_Witness ==
    /\ OnchainParsed
    /\ pc = "failed"
    /\ result.error = "Only snake format is supported"
    /\ \E k \in DOMAIN InputDict :
         /\ Len(InputDict[k].refs) = 1
         /\ TagOf(FirstFragment(InputDict[k])) = 1
    /\ \E k \in DOMAIN InputDict :
         /\ Len(FirstFragment(InputDict[k]).bits) >= 8
         /\ TagOf(FirstFragment(InputDict[k])) = 0

\* C5: a known field is absent from the record exactly when its key is absent
\* from the dictionary; a present field, an empty one too, is in the record
\* with its decoded value.
C5_PresentFieldsKept ==
    OnchainDone =>
        \A i \in 1..Len(FieldNames) :
            LET k == FieldNames[i] IN
            /\ (k \in DOMAIN result.metadata) = (toKey(sha256(k)) \in DOMAIN InputDict)
            /\ k \in DOMAIN result.metadata =>
                 result.metadata[k] =
                     bufferToString(extractor(InputDict[toKey(sha256(k))]).v,
                                    jettonOnChainMetadataSpec(k))

\* an off-ledger decode whose cell carries the buffer uri after the tag byte
OffchainOf(uri) ==
    /\ Dispatched
    /\ contentCell.bits = Byte(OFFCHAIN_CONTENT_PREFIX) \o Bits(uri)

\* the URL of the HTTP fetch of the decode
FetchedURL == calls[Len(calls)].url

\* C6 as stated: ipfs://abc/123 is fetched as https://ipfs.io/ipfs/abc/123 and
\* is IPFS, https://example.com/meta.json is not IPFS, and
\* https://myipfs.gateway.com/x is IPFS.
C6_Original ==
    /\ OffchainOf(URI_IPFS) =>
         /\ FetchedURL = URI_IPFS_REWRITTEN
         /\ pc = "done" => result.persistenceType = "offchain_ipfs"
    /\ OffchainOf(URI_EXAMPLE) /\ pc = "done" =>
         result.persistenceType = "offchain_private_domain"
    /\ OffchainOf(URI_MYIPFS) /\ pc = "done" =>
         result.persistenceType = "offchain_ipfs"

\* C6 amended: ipfs://abc/123 is fetched as https://ipfs.io/ipfs/abc/123 and
\* is IPFS, https://example.com/meta.json is not IPFS, and
\* https://myipfs.gateway.com/x is not IPFS either: its "ipfs." follows
\* neither the start of the URL nor a "/".
C6_Classification ==
    /\ OffchainOf(URI_IPFS) =>
         /\ FetchedURL = URI_IPFS_REWRITTEN
         /\ pc = "done" => result.persistenceType = "offchain_ipfs"
    /\ OffchainOf(URI_EXAMPLE) /\ pc = "done" =>
         result.persistenceType = "offchain_private_domain"
    /\ OffchainOf(URI_MYIPFS) /\ pc = "done" =>
         result.persistenceType = "offchain_private_domain"
    /\ OffchainOf(URI_GATEWAY) /\ pc = "done" =>
         result.persistenceType = "offchain_ipfs"

C6_Witness ==
    /\ OffchainOf(URI_MYIPFS)
    /\ pc = "done"
    /\ FetchedURL = URI_MYIPFS
    /\ result.persistenceType = "offchain_private_domain"

\* the string the off-ledger resolver decodes from the cell
DecodedURI == toStringAscii(bitsToPaddedBuffer(skipBits(contentCell, 8).bits))

\* C7: the decoded string is rewritten only when it begins with ipfs://, the
\* prefix being replaced by https://ipfs.io/ipfs/; every other string, one
\* holding ipfs:// further on too, is fetched unchanged.
C7_RewriteOnlyAtStart ==
    Dispatched /\ TagOf(contentCell) = 1 =>
        FetchedURL =
            IF startsWith(DecodedURI, IPFS_SCHEME)
            THEN IPFS_GATEWAY \o SubSeq(DecodedURI, Len(IPFS_SCHEME) + 1, Len(DecodedURI))
            ELSE DecodedURI

\* readNftItemMetadata has issued its fetch
ItemFetched ==
    /\ entry = "readNftItemMetadata"
    /\ pc \in {"await_item_fetch", "done"}

\* C8: the base path is the URI after the tag byte of the cell that
\* get_nft_content returned; one fetch is issued, to the base path when the
\* item's cell has no bits and else to the base path followed by the item's
\* bits decoded as text.
C8_ItemPath ==
    ItemFetched /\ remainingBits(contentCell) >= 8 /\ TagOf(contentCell) = 1 =>
        LET base == toStringUtf8(bitsToPaddedBuffer(skipBits(contentCell, 8).bits))
            item == toStringUtf8(bitsToPaddedBuffer(itemCell.bits))
        IN /\ Cardinality(Fetches) = 1
           /\ FetchedURL = IF remainingBits(itemCell) = 0 THEN base ELSE base \o item

\* C9: an off-ledger cell that carries child references is rejected: no URI
\* built from the root cell's bits alone is fetched.
C9_OffchainRefsRejected ==
    Dispatched /\ TagOf(contentCell) = 1 /\ Len(contentCell.refs) >= 1 =>
        /\ pc = "failed"
        /\ Fetches = {}

methodOf(e) ==
    CASE e = "readJettonMetadata" -> "get_jetton_data"
      [] e = "readNftMetadata" -> "get_collection_data"

\* C10: external calls are sequential. At most one call is in flight and it is
\* the last one issued. readJettonMetadata and readNftMetadata issue one
\* remote read, then at most one fetch, and that only for a cell of tag 0x01:
\* an on-ledger result or a failed decode comes with no fetch.
\* readNftItemMetadata issues get_nft_data, get_nft_content and one fetch, in
\* this order.
C10_SequentialIO ==
    /\ Cardinality(inflight) <= 1
    /\ inflight \subseteq {Len(calls)}
    /\ entry \in {"readJettonMetadata", "readNftMetadata"} =>
         /\ Len(calls) \in {1, 2}
         /\ calls[1] = RunMethod(methodOf(entry))
         /\ Len(calls) = 2 =>
              /\ calls[2].kind = "axios.get"
              /\ remainingBits(contentCell) >= 8
              /\ TagOf(contentCell) = 1
         /\ pc = "done" /\ result.persistenceType = "onchain" => Len(calls) = 1
         /\ pc = "failed" /\ result.error # "FetchError" => Len(calls) = 1
    /\ entry = "readNftItemMetadata" =>
         /\ Len(calls) \in 1..3
         /\ calls[1] = RunMethod("get_nft_data")
         /\ Len(calls) >= 2 => calls[2] = RunMethod("get_nft_content")
         /\ Len(calls) = 3 => calls[3].kind = "axios.get"
         /\ pc = "done" => Len(calls) = 3

C10_Witness ==
    /\ entry = "readNftItemMetadata"
    /\ pc = "done"
    /\ Len(calls) = 3
    /\ inflight = {}
    /\ calls[3].url = URI_BASE \o PATH_ITEM

====
